---- MODULE Spec2Model ----
(***************************************************************************)
(* Rainwater-tank planner: the genetic optimizer (ga_optimization.py),    *)
(* the fitness evaluator (fitness_function.py) and the simulation         *)
(* reporter (tank_simulation.py).                                         *)
(*                                                                        *)
(* Quantities of water are integers counted in thirds of a hundredth of a *)
(* litre, so that round(x, 2) is a real rounding and never a tie.         *)
(* runoff_coefficient and mutation_rate are counted in percent.           *)
(***************************************************************************)
EXTENDS Integers, Sequences, FiniteSets, TLC

\* ------------------------------------------------------------------ bounds
MaxDays == 2
MaxRain == 1
MaxUsage == 2
MaxGen == 2

\* round(x, 2): one hundredth of a litre is Cent units of the model
Cent == 3
\* the base score of fitness_function
BaseScore == 1000

VARIABLES
    forecast_df,        \* sequence of predicted_rainfall_mm, one per day
    tank,               \* catchment_area_m2, runoff_coefficient, tank_capacity_liters, initial_storage_liters
    usage_plan,         \* the plan handed to fitness_function / simulate_tank_levels
    fpc,                \* position of fitness_function
    day,                \* days fitness_function has processed
    storage,            \* fitness_function: storage
    overflow_penalty,
    shortage_penalty,
    score,
    spc,                \* position of simulate_tank_levels
    row,                \* rows simulate_tank_levels has processed
    current_storage,
    overflow,
    shortage,
    results,
    ga,                 \* usage_min, usage_max, population_size, generations, mutation_rate
    pc,                 \* position of run_ga_optimization
    err,                \* the exception that ended run_ga_optimization
    population,
    gen,                \* iterations of the generation loop completed
    scores,
    scores_bound,       \* whether the local scores has been assigned
    selected,
    children,
    final_score,
    final_plan,
    optimized_usage,    \* the usage_liters column of optimized_df
    ranked,             \* history: the population the last ranking was computed from
    evals               \* history: number of rankings computed

tankVars == <<usage_plan, fpc, day, storage, overflow_penalty, shortage_penalty,
              score, spc, row, current_storage, overflow, shortage, results>>
inputVars == <<forecast_df, tank>>
gaVars == <<ga, pc, err, population, gen, scores, scores_bound, selected, children, final_score,
            final_plan, optimized_usage, ranked, evals>>
vars == <<forecast_df, tank, usage_plan, fpc, day, storage, overflow_penalty,
          shortage_penalty, score, spc, row, current_storage, overflow, shortage,
          results, ga, pc, err, population, gen, scores, scores_bound, selected, children,
          final_score, final_plan, optimized_usage, ranked, evals>>

None == "None"

\* ------------------------------------------------------------- arithmetic
Abs(x) == IF x < 0 THEN -x ELSE x
Min(a, b) == IF a <= b THEN a ELSE b
Max(a, b) == IF a >= b THEN a ELSE b

\* round(x, 2): the nearest multiple of a hundredth
Round2(x) == ((x + (Cent \div 2)) \div Cent) * Cent

\* inflow_liters = rainfall_mm * catchment_area_m2 * runoff_coefficient
InflowLiters(rainfall_mm, t) ==
    (rainfall_mm * t.catchment_area_m2 * t.runoff_coefficient) \div 100

\* ScoringDay with the deficit carried into the next day
ScoringDayDebtCarried(st, rainfall_mm, usage, t) ==
    LET inflow_liters == InflowLiters(rainfall_mm, t)
        s1 == st.storage + inflow_liters - usage
        over == s1 > t.tank_capacity_liters
        op == IF over THEN st.overflow_penalty + (s1 - t.tank_capacity_liters) * 2
                      ELSE st.overflow_penalty
        s2 == IF over THEN t.tank_capacity_liters ELSE s1
        short == s2 < 0
        sp == IF short THEN st.shortage_penalty + Abs(s2) * 5
                       ELSE st.shortage_penalty
    IN [storage |-> s2, overflow_penalty |-> op, shortage_penalty |-> sp]

\* ScoringDay with the overflow cut off before the usage is subtracted
ScoringDayOverflowFirst(st, rainfall_mm, usage, t) ==
    LET inflow_liters == InflowLiters(rainfall_mm, t)
        s0 == st.storage + inflow_liters
        over == s0 > t.tank_capacity_liters
        op == IF over THEN st.overflow_penalty + (s0 - t.tank_capacity_liters) * 2
                      ELSE st.overflow_penalty
        s1 == (IF over THEN t.tank_capacity_liters ELSE s0) - usage
        short == s1 < 0
        sp == IF short THEN st.shortage_penalty + Abs(s1) * 5
                       ELSE st.shortage_penalty
        s3 == IF short THEN 0 ELSE s1
    IN [storage |-> s3, overflow_penalty |-> op, shortage_penalty |-> sp]

\* ScoringDay with the inflow of the day left out of the storage
ScoringDayNoInflow(st, rainfall_mm, usage, t) ==
    LET s1 == st.storage - usage
        over == s1 > t.tank_capacity_liters
        op == IF over THEN st.overflow_penalty + (s1 - t.tank_capacity_liters) * 2
                      ELSE st.overflow_penalty
        s2 == IF over THEN t.tank_capacity_liters ELSE s1
        short == s2 < 0
        sp == IF short THEN st.shortage_penalty + Abs(s2) * 5
                       ELSE st.shortage_penalty
        s3 == IF short THEN 0 ELSE s2
    IN [storage |-> s3, overflow_penalty |-> op, shortage_penalty |-> sp]

\* ScoringDay with the runoff coefficient left out of the inflow
ScoringDayRunoffIgnored(st, rainfall_mm, usage, t) ==
    LET inflow_liters == rainfall_mm * t.catchment_area_m2
        s1 == st.storage + inflow_liters - usage
        over == s1 > t.tank_capacity_liters
        op == IF over THEN st.overflow_penalty + (s1 - t.tank_capacity_liters) * 2
                      ELSE st.overflow_penalty
        s2 == IF over THEN t.tank_capacity_liters ELSE s1
        short == s2 < 0
        sp == IF short THEN st.shortage_penalty + Abs(s2) * 5
                       ELSE st.shortage_penalty
        s3 == IF short THEN 0 ELSE s2
    IN [storage |-> s3, overflow_penalty |-> op, shortage_penalty |-> sp]

\* ------------------------------------------------- fitness_function, a day
\* st = [storage, overflow_penalty, shortage_penalty]
ScoringDay(st, rainfall_mm, usage, t) ==
    LET inflow_liters == InflowLiters(rainfall_mm, t)
        s1 == st.storage + inflow_liters - usage
        over == s1 > t.tank_capacity_liters
        op == IF over THEN st.overflow_penalty + (s1 - t.tank_capacity_liters) * 2
                      ELSE st.overflow_penalty
        s2 == IF over THEN t.tank_capacity_liters ELSE s1
        short == s2 < 0
        sp == IF short THEN st.shortage_penalty + Abs(s2) * 5
                       ELSE st.shortage_penalty
        s3 == IF short THEN 0 ELSE s2
    IN [storage |-> s3, overflow_penalty |-> op, shortage_penalty |-> sp]

\* score = 1000 - (overflow_penalty + shortage_penalty)
ScoreOf(st) == BaseScore - (st.overflow_penalty + st.shortage_penalty)

RECURSIVE FitnessLoop(_, _, _, _, _)
FitnessLoop(st, plan, forecast, d, t) ==
    IF d > Len(plan) THEN st
    ELSE FitnessLoop(ScoringDay(st, forecast[d], plan[d], t), plan, forecast, d + 1, t)

\* fitness_function on a plan no longer than the forecast
fitness_function(plan, forecast, t) ==
    ScoreOf(FitnessLoop([storage |-> t.initial_storage_liters,
                         overflow_penalty |-> 0, shortage_penalty |-> 0],
                        plan, forecast, 1, t))

\* ReportingDay with the usage subtracted before the overflow is cut off
ReportingDayUsageFirst(cur, rainfall_mm, daily_usage_liters, t) ==
    LET inflow_liters == InflowLiters(rainfall_mm, t)
        c1 == cur + inflow_liters - daily_usage_liters
        over == c1 > t.tank_capacity_liters
        ov == IF over THEN c1 - t.tank_capacity_liters ELSE 0
        c2 == IF over THEN t.tank_capacity_liters ELSE c1
        sh == IF c2 >= 0 THEN 0 ELSE 0 - c2
        c3 == IF c2 >= 0 THEN c2 ELSE 0
    IN [current_storage |-> c3, overflow |-> ov, shortage |-> sh,
        inflow_liters |-> inflow_liters]

\* ReportingDay with the shortage measured against the storage before clamping
ReportingDayShortageUnclamped(cur, rainfall_mm, daily_usage_liters, t) ==
    LET inflow_liters == InflowLiters(rainfall_mm, t)
        c1 == cur + inflow_liters
        over == c1 > t.tank_capacity_liters
        ov == IF over THEN c1 - t.tank_capacity_liters ELSE 0
        c2 == IF over THEN t.tank_capacity_liters ELSE c1
        enough == c2 >= daily_usage_liters
        sh == IF enough THEN 0 ELSE daily_usage_liters - c1
        c3 == IF enough THEN c2 - daily_usage_liters ELSE 0
    IN [current_storage |-> c3, overflow |-> ov, shortage |-> sh,
        inflow_liters |-> inflow_liters]

\* ReportingDay with the storage left above the capacity after an overflow
ReportingDayNoCap(cur, rainfall_mm, daily_usage_liters, t) ==
    LET inflow_liters == InflowLiters(rainfall_mm, t)
        c1 == cur + inflow_liters
        over == c1 > t.tank_capacity_liters
        ov == IF over THEN c1 - t.tank_capacity_liters ELSE 0
        enough == c1 >= daily_usage_liters
        sh == IF enough THEN 0 ELSE daily_usage_liters - c1
        c3 == IF enough THEN c1 - daily_usage_liters ELSE 0
    IN [current_storage |-> c3, overflow |-> ov, shortage |-> sh,
        inflow_liters |-> inflow_liters]

\* ReportingDay with the unmet usage carried forward as negative storage
ReportingDayDebtCarried(cur, rainfall_mm, daily_usage_liters, t) ==
    LET inflow_liters == InflowLiters(rainfall_mm, t)
        c1 == cur + inflow_liters
        over == c1 > t.tank_capacity_liters
        ov == IF over THEN c1 - t.tank_capacity_liters ELSE 0
        c2 == IF over THEN t.tank_capacity_liters ELSE c1
        enough == c2 >= daily_usage_liters
        sh == IF enough THEN 0 ELSE daily_usage_liters - c2
    IN [current_storage |-> c2 - daily_usage_liters, overflow |-> ov, shortage |-> sh,
        inflow_liters |-> inflow_liters]

\* -------------------------------------------- simulate_tank_levels, a day
ReportingDay(cur, rainfall_mm, daily_usage_liters, t) ==
    LET inflow_liters == InflowLiters(rainfall_mm, t)
        c1 == cur + inflow_liters
        over == c1 > t.tank_capacity_liters
        ov == IF over THEN c1 - t.tank_capacity_liters ELSE 0
        c2 == IF over THEN t.tank_capacity_liters ELSE c1
        enough == c2 >= daily_usage_liters
        sh == IF enough THEN 0 ELSE daily_usage_liters - c2
        c3 == IF enough THEN c2 - daily_usage_liters ELSE 0
    IN [current_storage |-> c3, overflow |-> ov, shortage |-> sh,
        inflow_liters |-> inflow_liters]

\* the record appended to results
BalanceRecord(rainfall_mm, daily_usage_liters, r) ==
    [rainfall_mm |-> rainfall_mm,
     inflow_liters |-> Round2(r.inflow_liters),
     usage_liters |-> Round2(daily_usage_liters),
     storage_liters |-> Round2(r.current_storage),
     overflow_liters |-> Round2(r.overflow),
     shortage_liters |-> Round2(r.shortage)]

\* --------------------------------------------------------------- inputs
SeqsOf(S, n) == [1..n -> S]

\* tank parameters inside the documented ranges
ValidTanks ==
    { t \in [catchment_area_m2 : {100}, runoff_coefficient : {1, 2},
             tank_capacity_liters : {1, 4}, initial_storage_liters : {0, 1, 4}] :
        t.initial_storage_liters <= t.tank_capacity_liters }

\* run_ga_optimization is not running
GaIdle ==
    /\ ga = None
    /\ pc = "off"
    /\ err = None
    /\ population = <<>>
    /\ gen = 0
    /\ scores = <<>>
    /\ scores_bound = FALSE
    /\ selected = <<>>
    /\ children = <<>>
    /\ final_score = None
    /\ final_plan = <<>>
    /\ optimized_usage = <<>>
    /\ ranked = <<>>
    /\ evals = 0

\* ------------------------------------------- the two balance models, run
\* side by side on one plan, forecast and tank
TankInit ==
    /\ tank \in ValidTanks
    /\ \E n \in 1..MaxDays :
         /\ forecast_df \in SeqsOf(0..MaxRain, n)
         /\ \E m \in (n - 1)..(n + 1) : usage_plan \in SeqsOf(0..MaxUsage, m)
    /\ fpc = "loop"
    /\ day = 0
    /\ storage = tank.initial_storage_liters
    /\ overflow_penalty = 0
    /\ shortage_penalty = 0
    /\ score = None
    /\ spc = IF Len(usage_plan) = Len(forecast_df) THEN "loop" ELSE "off"
    /\ row = 0
    /\ current_storage = tank.initial_storage_liters
    /\ overflow = 0
    /\ shortage = 0
    /\ results = <<>>
    /\ GaIdle

\* one iteration of the loop of fitness_function
FitnessDay ==
    /\ fpc = "loop"
    /\ day < Len(usage_plan)
    /\ day < Len(forecast_df)
    /\ LET st == ScoringDay([storage |-> storage, overflow_penalty |-> overflow_penalty,
                             shortage_penalty |-> shortage_penalty],
                            forecast_df[day + 1], usage_plan[day + 1], tank)
       IN /\ storage' = st.storage
          /\ overflow_penalty' = st.overflow_penalty
          /\ shortage_penalty' = st.shortage_penalty
    /\ day' = day + 1
    /\ UNCHANGED <<gaVars, inputVars, usage_plan, fpc, score, spc, row, current_storage,
                   overflow, shortage, results>>

\* forecast_df.iloc[day] past the last row of the forecast
FitnessIndexError ==
    /\ fpc = "loop"
    /\ day < Len(usage_plan)
    /\ day >= Len(forecast_df)
    /\ fpc' = "IndexError"
    /\ UNCHANGED <<gaVars, inputVars, usage_plan, day, storage, overflow_penalty,
                   shortage_penalty, score, spc, row, current_storage, overflow,
                   shortage, results>>

\* the loop is over: score and return
FitnessReturn ==
    /\ fpc = "loop"
    /\ day >= Len(usage_plan)
    /\ score' = ScoreOf([overflow_penalty |-> overflow_penalty,
                         shortage_penalty |-> shortage_penalty])
    /\ fpc' = "returned"
    /\ UNCHANGED <<gaVars, inputVars, usage_plan, day, storage, overflow_penalty,
                   shortage_penalty, spc, row, current_storage, overflow, shortage,
                   results>>

\* one iteration of the loop of simulate_tank_levels
SimulateDay ==
    /\ spc = "loop"
    /\ row < Len(forecast_df)
    /\ LET r == ReportingDay(current_storage, forecast_df[row + 1],
                             usage_plan[row + 1], tank)
       IN /\ current_storage' = r.current_storage
          /\ overflow' = r.overflow
          /\ shortage' = r.shortage
          /\ results' = Append(results,
                               BalanceRecord(forecast_df[row + 1], usage_plan[row + 1], r))
    /\ row' = row + 1
    /\ UNCHANGED <<gaVars, inputVars, usage_plan, fpc, day, storage, overflow_penalty,
                   shortage_penalty, score, spc>>

SimulateReturn ==
    /\ spc = "loop"
    /\ row >= Len(forecast_df)
    /\ spc' = "returned"
    /\ UNCHANGED <<gaVars, inputVars, usage_plan, fpc, day, storage, overflow_penalty,
                   shortage_penalty, score, row, current_storage, overflow, shortage,
                   results>>

TankNext ==
    \/ FitnessDay
    \/ FitnessIndexError
    \/ FitnessReturn
    \/ SimulateDay
    \/ SimulateReturn

TankSpec == TankInit /\ [][TankNext]_vars

\* ================================================== run_ga_optimization
\* UniformDraws with the lower end of the range forgotten
UniformDrawsFromZero(g) == 0..Max(g.usage_min, g.usage_max)

\* random.uniform(usage_min, usage_max): a value between the two arguments
UniformDraws(g) == Min(g.usage_min, g.usage_max)..Max(g.usage_min, g.usage_max)

\* create_individual: one draw per day of the forecast
create_individual(g, forecast) == SeqsOf(UniformDraws(g), Len(forecast))

\* mutate writing the drawn value into the following day as well
mutateNeighbour(individual, d, v) ==
    [k \in 1..Len(individual) |->
        IF k = d \/ k = (d % Len(individual)) + 1 THEN v ELSE individual[k]]

\* mutate(individual) with day and the drawn value chosen
mutate(individual, d, v) == [individual EXCEPT ![d] = v]

\* every result mutate can give
MutateOutcomes(individual, g) ==
    { mutate(individual, d, v) : d \in 1..Len(individual), v \in UniformDraws(g) }

\* random.random() < mutation_rate, random() in [0, 1): whether the child is mutated
MutationDecisions(g) ==
    (IF g.mutation_rate > 0 THEN {TRUE} ELSE {}) \cup
    (IF g.mutation_rate < 100 THEN {FALSE} ELSE {})

\* what lines 82-85 can leave in child1 (child2)
ChildOutcomes(child, g) ==
    UNION { IF m THEN MutateOutcomes(child, g) ELSE {child} : m \in MutationDecisions(g) }

\* crossover(parent1, parent2) at the drawn point
crossover(parent1, parent2, point) ==
    << SubSeq(parent1, 1, point) \o SubSeq(parent2, point + 1, Len(parent2)),
       SubSeq(parent2, 1, point) \o SubSeq(parent1, point + 1, Len(parent1)) >>

\* CrossoverPoints with both ends of the plan allowed as the cut
CrossoverPointsInclusive(parent1) == 0..Len(parent1)

\* random.randint(1, len(parent1) - 1)
CrossoverPoints(parent1) == 1..(Len(parent1) - 1)

\* the (score, ind) pairs of lines 57-67
Evaluated(pop, forecast, t) ==
    [i \in 1..Len(pop) |-> [score |-> fitness_function(pop[i], forecast, t), ind |-> pop[i]]]

\* position of pairs[i] after scores.sort(reverse=True, key=score): the sort is stable
RankOf(pairs, i) ==
    1 + Cardinality({ j \in 1..Len(pairs) : pairs[j].score > pairs[i].score })
      + Cardinality({ j \in 1..(i - 1) : pairs[j].score = pairs[i].score })

SortedDescending(pairs) ==
    [k \in 1..Len(pairs) |-> pairs[CHOOSE i \in 1..Len(pairs) : RankOf(pairs, i) = k]]

\* TopHalf taking the other end of the ranking
TopHalfWorst(sc, g) ==
    LET n == Min(Len(sc), Max(g.population_size \div 2, 0))
    IN [k \in 1..n |-> sc[Len(sc) - n + k].ind]

\* scores[:population_size // 2], the individuals only
TopHalf(sc, g) ==
    LET n == Min(Len(sc), Max(g.population_size \div 2, 0))
    IN [k \in 1..n |-> sc[k].ind]

\* BestOf taking the other end of the ranking
BestOfLast(sc) == sc[Len(sc)]

\* scores[0]
BestOf(sc) == sc[1]

\* range(generations) is exhausted
LoopOver(g, done) == done >= g.generations

\* while len(children) < population_size
NeedChildren(ch, g) == Len(ch) < g.population_size

\* the inputs of the runs explored
Forecasts(n) == { [i \in 1..n |-> IF i = 1 THEN 1 ELSE 0] }

DefaultTank ==
    [catchment_area_m2 |-> 100, runoff_coefficient |-> 1,
     tank_capacity_liters |-> 4, initial_storage_liters |-> 1]

\* tank parameters outside the documented ranges
BadTanks ==
    { [DefaultTank EXCEPT !.runoff_coefficient = 200],
      [DefaultTank EXCEPT !.runoff_coefficient = -100],
      [DefaultTank EXCEPT !.initial_storage_liters = 5],
      [DefaultTank EXCEPT !.tank_capacity_liters = 0],
      [DefaultTank EXCEPT !.catchment_area_m2 = 0] }

Settings(ps, gs, ms, bs) ==
    { [usage_min |-> b[1], usage_max |-> b[2], population_size |-> p,
       generations |-> g, mutation_rate |-> m] :
        p \in ps, g \in gs, m \in ms, b \in bs }

\* the population sizes explored: none, one, the sizes whose mating pool holds a
\* single plan, the smallest that breeds, and an odd one
PopulationSizes == 0..5

\* <<days, tank, settings>>
GaRuns ==
    \* every population size and number of generations, no mutation
    ({1, 2} \X {DefaultTank} \X Settings(PopulationSizes, 0..MaxGen, {0}, {<<1, 2>>}))
    \* the smallest population that breeds, with the default mutation rate
    \cup ({2} \X {DefaultTank} \X Settings({4}, {1}, {10}, {<<1, 2>>}))
    \* every child mutated, in a range of a single value
    \cup ({2} \X {DefaultTank} \X Settings({4}, 1..MaxGen, {100}, {<<2, 2>>}))
    \* a forecast long enough for more than one cut point
    \cup ({3} \X {DefaultTank} \X Settings({4}, {1}, {0}, {<<1, 2>>}))
    \* settings outside the documented ranges
    \cup ({2} \X BadTanks \X Settings({4}, {1}, {0}, {<<1, 2>>}))
    \cup ({2} \X {DefaultTank} \X Settings({4}, {1}, {0}, {<<2, 1>>}))

\* the two balance models are not running
TankIdle ==
    /\ usage_plan = <<>>
    /\ fpc = "off"
    /\ day = 0
    /\ storage = 0
    /\ overflow_penalty = 0
    /\ shortage_penalty = 0
    /\ score = None
    /\ spc = "off"
    /\ row = 0
    /\ current_storage = 0
    /\ overflow = 0
    /\ shortage = 0
    /\ results = <<>>

\* run_ga_optimization has been called with its arguments
Init ==
    /\ \E r \in GaRuns :
         /\ forecast_df \in Forecasts(r[1])
         /\ tank = r[2]
         /\ ga = r[3]
    /\ pc = "start"
    /\ err = None
    /\ population = <<>>
    /\ gen = 0
    /\ scores = <<>>
    /\ scores_bound = FALSE
    /\ selected = <<>>
    /\ children = <<>>
    /\ final_score = None
    /\ final_plan = <<>>
    /\ optimized_usage = <<>>
    /\ ranked = <<>>
    /\ evals = 0
    /\ TankIdle

\* line 53: population = [create_individual() for _ in range(population_size)]
InitPopulation ==
    /\ pc = "start"
    /\ population' \in SeqsOf(create_individual(ga, forecast_df),
                              Max(ga.population_size, 0))
    /\ pc' = "loop"
    /\ UNCHANGED <<tankVars, inputVars, ga, err, gen, scores, scores_bound, selected, children,
                   final_score, final_plan, optimized_usage, ranked, evals>>

\* lines 57-78: evaluate, rank, select
Evaluate ==
    /\ pc = "loop"
    /\ ~LoopOver(ga, gen)
    /\ Len(population) > 0
    /\ scores' = SortedDescending(Evaluated(population, forecast_df, tank))
    /\ scores_bound' = TRUE
    /\ selected' = TopHalf(scores', ga)
    /\ children' = <<>>
    /\ ranked' = population
    /\ evals' = evals + 1
    /\ pc' = "breed"
    /\ UNCHANGED <<tankVars, inputVars, ga, err, population, gen, final_score,
                   final_plan, optimized_usage>>

\* line 69: scores[0] of an empty ranking
EvaluateIndexError ==
    /\ pc = "loop"
    /\ ~LoopOver(ga, gen)
    /\ Len(population) = 0
    /\ scores' = <<>>
    /\ scores_bound' = TRUE
    /\ ranked' = population
    /\ evals' = evals + 1
    /\ pc' = "error"
    /\ err' = "IndexError"
    /\ UNCHANGED <<tankVars, inputVars, ga, population, gen, selected, children,
                   final_score, final_plan, optimized_usage>>

\* Breed with child1 being parent1 itself, not a new list: the mutation in place
\* of lines 41-42 then writes into the plan the mating pool and the ranking hold
BreedSharingParents ==
    /\ pc = "breed"
    /\ NeedChildren(children, ga)
    /\ Len(selected) >= 2
    /\ \E i, j \in 1..Len(selected) :
         /\ i # j
         /\ \E point \in CrossoverPoints(selected[i]) :
              LET c == crossover(selected[i], selected[j], point)
              IN \E child1 \in ChildOutcomes(selected[i], ga), child2 \in ChildOutcomes(c[2], ga) :
                   /\ children' = children \o <<child1, child2>>
                   /\ selected' = [selected EXCEPT ![i] = child1]
                   /\ scores' = [scores EXCEPT ![i].ind = child1]
    /\ UNCHANGED <<tankVars, inputVars, ga, pc, err, population, gen, scores_bound,
                   final_score, final_plan, optimized_usage, ranked, evals>>

\* lines 80-86: two parents, two children, each mutated or not
Breed ==
    /\ pc = "breed"
    /\ NeedChildren(children, ga)
    /\ Len(selected) >= 2
    /\ \E i, j \in 1..Len(selected) :
         /\ i # j
         /\ \E point \in CrossoverPoints(selected[i]) :
              LET c == crossover(selected[i], selected[j], point)
              IN \E child1 \in ChildOutcomes(c[1], ga), child2 \in ChildOutcomes(c[2], ga) :
                   children' = children \o <<child1, child2>>
    /\ UNCHANGED <<tankVars, inputVars, ga, pc, err, population, gen, scores, scores_bound, selected,
                   final_score, final_plan, optimized_usage, ranked, evals>>

\* line 80: random.sample(selected, 2) of fewer than two plans
\* line 47: random.randint(1, 0) for a plan of one day
BreedValueError ==
    /\ pc = "breed"
    /\ NeedChildren(children, ga)
    /\ \/ Len(selected) < 2
       \/ /\ Len(selected) >= 2
          /\ CrossoverPoints(selected[1]) = {}
    /\ pc' = "error"
    /\ err' = "ValueError"
    /\ UNCHANGED <<tankVars, inputVars, ga, population, gen, scores, scores_bound, selected, children,
                   final_score, final_plan, optimized_usage, ranked, evals>>

\* line 88: population = children, and the next iteration
Replace ==
    /\ pc = "breed"
    /\ ~NeedChildren(children, ga)
    /\ population' = children
    /\ gen' = gen + 1
    /\ pc' = "loop"
    /\ UNCHANGED <<tankVars, inputVars, ga, err, scores, scores_bound, selected, children,
                   final_score, final_plan, optimized_usage, ranked, evals>>

\* lines 91-108: the best of the last ranking, rounded into optimized_df
Finish ==
    /\ pc = "loop"
    /\ LoopOver(ga, gen)
    /\ scores_bound
    /\ final_score' = BestOf(scores).score
    /\ final_plan' = BestOf(scores).ind
    /\ optimized_usage' = [d \in 1..Len(final_plan') |-> Round2(final_plan'[d])]
    /\ pc' = "returned"
    /\ UNCHANGED <<tankVars, inputVars, ga, err, population, gen, scores, scores_bound, selected,
                   children, ranked, evals>>

\* FinishUnbound falling back to the first plan of the population, if any
FinishUnboundFallback ==
    /\ pc = "loop"
    /\ LoopOver(ga, gen)
    /\ ~scores_bound
    /\ final_plan' = IF Len(population) > 0 THEN population[1] ELSE <<>>
    /\ final_score' = fitness_function(final_plan', forecast_df, tank)
    /\ optimized_usage' = [d \in 1..Len(final_plan') |-> Round2(final_plan'[d])]
    /\ pc' = "returned"
    /\ UNCHANGED <<tankVars, inputVars, ga, err, population, gen, scores, scores_bound,
                   selected, children, ranked, evals>>

\* line 91: scores was never assigned
FinishUnbound ==
    /\ pc = "loop"
    /\ LoopOver(ga, gen)
    /\ scores = <<>>
    /\ scores_bound = FALSE
    /\ pc' = "error"
    /\ err' = "UnboundLocalError"
    /\ UNCHANGED <<tankVars, inputVars, ga, population, gen, scores, scores_bound, selected, children,
                   final_score, final_plan, optimized_usage, ranked, evals>>

Next ==
    \/ InitPopulation
    \/ Evaluate
    \/ EvaluateIndexError
    \/ Breed
    \/ BreedValueError
    \/ Replace
    \/ Finish
    \/ FinishUnbound

Spec == Init /\ [][Next]_vars

\* ================================================================ claims
Clamp(x, lo, hi) == Max(lo, Min(x, hi))

InBounds(plan, g) == \A d \in 1..Len(plan) : g.usage_min <= plan[d] /\ plan[d] <= g.usage_max

AllInBounds(plans, g) == \A i \in 1..Len(plans) : InBounds(plans[i], g)

C2_StorageWithinTank ==
    fpc # "off" =>
        /\ 0 <= storage /\ storage <= tank.tank_capacity_liters
        /\ 0 <= current_storage /\ current_storage <= tank.tank_capacity_liters

\* C2 witness: both models have run short on a day and both have storage 0 after it
C2_Witness ==
    /\ day >= 1
    /\ shortage_penalty > 0
    /\ storage = 0
    /\ row >= 1
    /\ shortage > 0
    /\ current_storage = 0

\* a step of the loop of simulate_tank_levels
SimulateStep == row' = row + 1

DayInflow == InflowLiters(forecast_df[row + 1], tank)
DayUsage == usage_plan[row + 1]

C4_ClampingAccounted ==
    [][SimulateStep =>
         LET pre == current_storage + DayInflow
             avail == Min(pre, tank.tank_capacity_liters)
         IN /\ overflow' > 0 => pre - tank.tank_capacity_liters = overflow'
            /\ pre <= tank.tank_capacity_liters => overflow' = 0
            /\ overflow' >= 0
            /\ shortage' > 0 => (DayUsage - avail = shortage' /\ current_storage' = 0)
            /\ shortage' >= 0
            /\ shortage' = 0 => current_storage' = avail - DayUsage]_vars

\* C4 witness: a day with both a positive overflow and a positive shortage
C4_Witness ==
    /\ row >= 1
    /\ overflow > 0
    /\ shortage > 0
    /\ current_storage = 0

\* the storage the claim of C5 gives for the end of day d, and the day's value
\* before clamping
RECURSIVE ClaimedStorage(_)
ClaimedStorage(d) ==
    IF d = 0 THEN tank.initial_storage_liters
    ELSE Clamp(ClaimedStorage(d - 1) + InflowLiters(forecast_df[d], tank) - usage_plan[d],
               0, tank.tank_capacity_liters)

ClaimedRaw(d) ==
    ClaimedStorage(d - 1) + InflowLiters(forecast_df[d], tank) - usage_plan[d]

RECURSIVE ClaimedPenalty(_)
ClaimedPenalty(d) ==
    IF d = 0 THEN 0
    ELSE ClaimedPenalty(d - 1)
         + 2 * Max(ClaimedRaw(d) - tank.tank_capacity_liters, 0)
         + 5 * Max(0 - ClaimedRaw(d), 0)

\* C5: fitness_function returns 1000 minus twice every day's excess over the
\* capacity and five times every day's deficit, usage being subtracted before either
\* test; the score is never above 1000 and is 1000 exactly when no day overflows
\* or runs short.
C5_FitnessScore ==
    fpc = "returned" =>
        /\ score = 1000 - ClaimedPenalty(Len(usage_plan))
        /\ storage = ClaimedStorage(Len(usage_plan))
        /\ score <= 1000
        /\ score = 1000 <=>
             \A d \in 1..Len(usage_plan) :
                 0 <= ClaimedRaw(d) /\ ClaimedRaw(d) <= tank.tank_capacity_liters

\* C5 witness: a scored plan with a day that overflowed and a day that ran short
C5_Witness ==
    /\ fpc = "returned"
    /\ overflow_penalty > 0
    /\ shortage_penalty > 0
    /\ score < 1000

\* run_ga_optimization is at the head of the generation loop or behind it
AtGeneration == pc \in {"loop", "returned"}

\* C6 as stated: at the start of every generation and after the last one the
\* population holds exactly population_size plans, odd sizes included.
C6_PopulationSizeExact ==
    AtGeneration => Len(population) = ga.population_size

Fitness(plan) == fitness_function(plan, forecast_df, tank)

\* C7: the plan returned is the first plan of highest fitness of the population
\* that entered the last iteration, with the fitness that ranking recorded; the
\* loop ranked a population exactly generations times, so the children of the last
\* iteration were never ranked.
C7_ReturnsBestOfLastRanking ==
    pc = "returned" =>
        /\ evals = ga.generations
        /\ \E i \in 1..Len(ranked) :
             /\ final_plan = ranked[i]
             /\ \A j \in 1..Len(ranked) : Fitness(ranked[j]) <= Fitness(ranked[i])
             /\ \A j \in 1..(i - 1) : Fitness(ranked[j]) < Fitness(ranked[i])
        /\ final_score = Fitness(final_plan)

\* C7 witness: a plan was returned after two generations although a child built in
\* the last iteration scores strictly better than it
C7_Witness ==
    /\ pc = "returned"
    /\ gen >= 2
    /\ \E k \in 1..Len(population) : Fitness(population[k]) > final_score

\* population_size < 2 or generations == 0
Degenerate == pc # "off" /\ (ga.population_size < 2 \/ ga.generations <= 0)

\* C8 as stated: a run with population_size >= 2, generations >= 1 and a forecast
\* of at least two days never ends in an error, and when it returns it has run the
\* loop body exactly generations times.
C8_NonDegenerateRunsReturn ==
    (pc # "off" /\ ga.population_size >= 2 /\ ga.generations >= 1
                /\ Len(forecast_df) >= 2) =>
        /\ pc # "error"
        /\ pc = "returned" => gen = ga.generations

\* C9: a degenerate configuration never returns a plan, optimized or not, and the
\* run can only stop in an error.
C9_DegenerateEndsInError ==
    Degenerate =>
        /\ pc # "returned"
        /\ final_plan = <<>>
        /\ optimized_usage = <<>>
        /\ pc = "error" => err \in {"IndexError", "ValueError", "UnboundLocalError"}
        /\ pc # "error" => ENABLED Next

\* C9 witness: runs ended in an error for no generations and for a population of one
C9_Witness ==
    /\ pc = "error"
    /\ \/ (ga.generations = 0 /\ ga.population_size >= 2 /\ err = "UnboundLocalError")
       \/ (ga.generations >= 1 /\ ga.population_size = 1 /\ err = "ValueError")

\* a configuration outside the documented ranges
OutOfRange ==
    /\ pc # "off"
    /\ \/ ga.usage_max < ga.usage_min
       \/ tank.runoff_coefficient < 0
       \/ tank.runoff_coefficient > 100
       \/ tank.initial_storage_liters > tank.tank_capacity_liters
       \/ tank.tank_capacity_liters <= 0
       \/ tank.catchment_area_m2 <= 0

\* C10 as stated: with an out-of-range configuration no population is initialised,
\* no fitness is computed and no plan is returned.
C10_OutOfRangeRejected ==
    OutOfRange =>
        /\ population = <<>>
        /\ evals = 0
        /\ pc # "returned"

\* C11 as stated: fitness_function never scores a plan whose length differs from
\* the forecast's, and raises before any day is processed or any penalty is
\* accumulated, for a shorter plan and for a longer one.
C11_LengthMismatchRejected ==
    (fpc # "off" /\ Len(usage_plan) # Len(forecast_df)) =>
        /\ fpc # "returned"
        /\ day = 0
        /\ overflow_penalty = 0
        /\ shortage_penalty = 0

\* simulate_tank_levels runs on a forecast whose inflow exceeds the capacity on
\* every day, with a plan of zeros
HighRain ==
    /\ spc # "off"
    /\ \A d \in 1..Len(forecast_df) :
         /\ InflowLiters(forecast_df[d], tank) > tank.tank_capacity_liters
         /\ usage_plan[d] = 0

\* C12 as stated: in the high-rain scenario every record after day 1 has
\* overflow_liters = inflow - tank_capacity and storage_liters = tank_capacity.
C12_HighRainAsStated ==
    HighRain =>
        \A k \in 2..Len(results) :
            /\ results[k].overflow_liters =
                   InflowLiters(forecast_df[k], tank) - tank.tank_capacity_liters
            /\ results[k].storage_liters = tank.tank_capacity_liters

\* C12 amended: in the high-rain scenario the tank is full from day 1 on, so every
\* record after day 1 has overflow_liters = round(inflow, 2), the record's own
\* inflow_liters, and storage_liters = round(tank_capacity, 2); the record of
\* day 1 has overflow_liters = round(initial_storage + inflow - tank_capacity, 2).
C12_HighRainWholeInflowOverflows ==
    HighRain =>
        /\ \A k \in 2..Len(results) :
             /\ results[k].overflow_liters = Round2(InflowLiters(forecast_df[k], tank))
             /\ results[k].overflow_liters = results[k].inflow_liters
        /\ \A k \in 1..Len(results) :
             /\ results[k].storage_liters = Round2(tank.tank_capacity_liters)
             /\ results[k].shortage_liters = 0
        /\ Len(results) >= 1 =>
             results[1].overflow_liters =
                 Round2(tank.initial_storage_liters + InflowLiters(forecast_df[1], tank)
                        - tank.tank_capacity_liters)

\* C12 witness: a finished high-rain run of two days or more
C12_Witness ==
    /\ HighRain
    /\ spc = "returned"
    /\ Len(results) >= 2
    /\ overflow > 0

\* simulate_tank_levels runs on a forecast without rain, from an empty tank, with a
\* positive usage on every day
Dry ==
    /\ spc # "off"
    /\ tank.initial_storage_liters = 0
    /\ \A d \in 1..Len(forecast_df) : forecast_df[d] = 0 /\ usage_plan[d] > 0

\* C13: in the dry scenario every record has shortage_liters = usage_liters,
\* storage_liters = 0 and overflow_liters = 0.
C13_DryScenario ==
    Dry =>
        \A k \in 1..Len(results) :
            /\ results[k].shortage_liters = results[k].usage_liters
            /\ results[k].shortage_liters = Round2(usage_plan[k])
            /\ results[k].storage_liters = 0
            /\ results[k].overflow_liters = 0

\* C13 witness: a finished dry run of two days or more that reports a shortage
C13_Witness ==
    /\ Dry
    /\ spc = "returned"
    /\ Len(results) >= 2
    /\ results[2].shortage_liters > 0
    /\ current_storage = 0

\* the plans of a ranking, in its order
PlansOf(sc) == [k \in 1..Len(sc) |-> sc[k].ind]

\* C14: once a population is ranked, building the children (crossover, mutation in
\* place of a child) and replacing the population change no ranked plan and no
\* recorded fitness, and the plan chosen at the end carries the fitness that
\* fitness_function gives for it when it is evaluated again.
C14_RankedPlansUntouched ==
    [][/\ pc = "breed" =>
            /\ scores' = scores
            /\ selected' = selected
            /\ \A k \in 1..Len(scores') : scores'[k].score = Fitness(scores'[k].ind)
       /\ (pc = "loop" /\ pc' = "returned") =>
            /\ scores' = scores
            /\ final_plan' = scores[1].ind
            /\ final_score' = scores[1].score
            /\ final_score' = Fitness(final_plan')]_vars

\* C14 witness: a plan was returned after a child had been mutated into a plan that
\* is in no ranking position
C14_Witness ==
    /\ pc = "returned"
    /\ ga.mutation_rate > 0
    /\ ga.usage_min < ga.usage_max
    /\ \E c \in 1..Len(population) :
         \A k \in 1..Len(scores) : population[c] # scores[k].ind
    /\ final_score = Fitness(final_plan)

\* parent1[:cut] + parent2[cut:], position by position
Splice(p1, p2, cut) == [k \in 1..Len(p1) |-> IF k <= cut THEN p1[k] ELSE p2[k]]

\* what C15 says of the two children of parent1 and parent2 cut at point
CrossoverAsSpecified(p1, p2, point) ==
    LET N == Len(p1)
        A == crossover(p1, p2, point)[1]
        B == crossover(p1, p2, point)[2]
    IN /\ point \in 1..(N - 1)
       /\ A = Splice(p1, p2, point)
       /\ B = Splice(p2, p1, point)
       /\ Len(A) = N
       /\ Len(B) = N
       /\ \A k \in 1..N : /\ A[k] \in {p1[k], p2[k]}
                          /\ B[k] \in {p1[k], p2[k]}
                          /\ {A[k], B[k]} = {p1[k], p2[k]}
       /\ \E k \in 1..N : A[k] = p1[k] /\ k <= point
       /\ \E k \in 1..N : A[k] = p2[k] /\ k > point
       /\ \E k \in 1..N : B[k] = p2[k] /\ k <= point
       /\ \E k \in 1..N : B[k] = p1[k] /\ k > point

\* the children appended by a step of the breeding loop
NewChildren == SubSeq(children', Len(children) + 1, Len(children'))

\* C15: for two parents of N >= 2 days every cut lies in 1..N-1, child A is
\* parent1 up to the cut followed by parent2 after it and child B the reverse, both
\* of length N, each position holding the value of one of the parents and the two
\* children together holding both, each child with a day of either parent; the
\* mating pool is left as it was and, without mutation, the children appended are
\* the two splices of two pool plans.
C15_SinglePointCrossover ==
    [][pc = "breed" =>
         /\ \A i, j \in 1..Len(selected) :
              (i # j /\ Len(selected[i]) >= 2) =>
                  /\ CrossoverPoints(selected[i]) # {}
                  /\ \A point \in CrossoverPoints(selected[i]) :
                       CrossoverAsSpecified(selected[i], selected[j], point)
         /\ selected' = selected
         /\ (children' # children /\ ga.mutation_rate = 0) =>
              \E i, j \in 1..Len(selected) : \E cut \in 1..(Len(selected[i]) - 1) :
                  NewChildren = << Splice(selected[i], selected[j], cut),
                                   Splice(selected[j], selected[i], cut) >>]_vars

\* C15 witness: two different parents of three days were crossed and the first
\* child is neither of them
C15_Witness ==
    /\ pc = "breed"
    /\ Len(children) >= 2
    /\ Len(forecast_df) = 3
    /\ \A k \in 1..Len(selected) : children[1] # selected[k]
    /\ \E i, j \in 1..Len(selected) : \E cut \in 1..2 :
         /\ selected[i] # selected[j]
         /\ children[1] = Splice(selected[i], selected[j], cut)
         /\ children[2] = Splice(selected[j], selected[i], cut)

\* the days on which two plans of the same length differ
DaysChanged(a, b) == { k \in 1..Len(a) : a[k] # b[k] }

\* b is a, or a with one day rewritten to a value of the usage range
AtMostOneDayRewritten(a, b) ==
    /\ Len(b) = Len(a)
    /\ Cardinality(DaysChanged(a, b)) <= 1
    /\ \A k \in DaysChanged(a, b) : b[k] \in ga.usage_min..ga.usage_max

\* C16: where mutation can happen, mutate rewrites the one day drawn, to a value of
\* [usage_min, usage_max], and leaves every other day of the plan as it was; each
\* child appended by a breeding step differs from its crossover result in at most
\* one day, and there by a value of the range.
C16_MutationRewritesOneDay ==
    [][(pc = "breed" /\ ga.mutation_rate > 0) =>
         /\ \A a \in 1..Len(selected) :
              \A d \in 1..Len(selected[a]), v \in UniformDraws(ga) :
                  LET m == mutate(selected[a], d, v)
                  IN /\ Len(m) = Len(selected[a])
                     /\ m[d] = v
                     /\ v \in ga.usage_min..ga.usage_max
                     /\ \A k \in 1..Len(m) : k # d => m[k] = selected[a][k]
         /\ children' # children =>
              /\ Len(NewChildren) = 2
              /\ \E i, j \in 1..Len(selected) : \E cut \in 1..(Len(selected[i]) - 1) :
                   /\ AtMostOneDayRewritten(Splice(selected[i], selected[j], cut), NewChildren[1])
                   /\ AtMostOneDayRewritten(Splice(selected[j], selected[i], cut), NewChildren[2])]_vars

\* C16 witness: a child was mutated into a plan that no crossover of the mating
\* pool gives, one day away from one that it does give
C16_Witness ==
    /\ pc = "breed"
    /\ ga.mutation_rate > 0
    /\ Len(children) >= 2
    /\ \A i, j \in 1..Len(selected) : \A cut \in 1..(Len(selected[i]) - 1) :
         children[1] # Splice(selected[i], selected[j], cut)
    /\ \E i, j \in 1..Len(selected) : \E cut \in 1..(Len(selected[i]) - 1) :
         /\ i # j
         /\ Cardinality(DaysChanged(Splice(selected[i], selected[j], cut), children[1])) = 1
         /\ children[2] = Splice(selected[j], selected[i], cut)

\* how many times plan x stands in the sequence of plans s
Copies(s, x) == Cardinality({ k \in 1..Len(s) : s[k] = x })

\* C17: while a generation breeds, the mating pool holds population_size // 2
\* plans, the first ones of the ranking of the current population, which is in
\* descending order of fitness, so that no plan outside the pool is fitter than one
\* inside it; the two parents of every crossover are plans at two different
\* positions of the pool.
C17_MatingPoolIsTopHalf ==
    [][pc = "breed" =>
         /\ Len(selected) = ga.population_size \div 2
         /\ Len(scores) = Len(population)
         /\ \A c \in 1..Len(population) :
              Copies(PlansOf(scores), population[c]) = Copies(population, population[c])
         /\ \A k \in 1..Len(scores) : scores[k].score = Fitness(scores[k].ind)
         /\ \A a \in 1..Len(selected) : selected[a] = scores[a].ind
         /\ \A a, b \in 1..Len(scores) : a < b => scores[a].score >= scores[b].score
         /\ \A a \in 1..Len(selected) : \A b \in (Len(selected) + 1)..Len(scores) :
              ~(Fitness(scores[b].ind) > Fitness(selected[a]))
         /\ children' # children =>
              \E i, j \in 1..Len(selected) : \E cut \in 1..(Len(selected[i]) - 1) :
                  /\ i # j
                  /\ AtMostOneDayRewritten(Splice(selected[i], selected[j], cut), NewChildren[1])
                  /\ AtMostOneDayRewritten(Splice(selected[j], selected[i], cut), NewChildren[2])
                  /\ ga.mutation_rate = 0 =>
                       NewChildren = << Splice(selected[i], selected[j], cut),
                                        Splice(selected[j], selected[i], cut) >>]_vars

\* C17 witness: a pool of two different plans, a plan left out that is strictly
\* less fit than both, and two children bred from the two pool positions
C17_Witness ==
    /\ pc = "breed"
    /\ ga.mutation_rate = 0
    /\ Len(selected) = 2
    /\ selected[1] # selected[2]
    /\ \E b \in 3..Len(scores) : scores[b].score < scores[2].score
    /\ Len(children) >= 2
    /\ \E cut \in 1..(Len(selected[1]) - 1) :
         \/ /\ children[1] = Splice(selected[1], selected[2], cut)
            /\ children[2] = Splice(selected[2], selected[1], cut)
         \/ /\ children[1] = Splice(selected[2], selected[1], cut)
            /\ children[2] = Splice(selected[1], selected[2], cut)

\* the loop of simulate_tank_levels after k days, before any rounding
RECURSIVE ReportedAfter(_)
ReportedAfter(k) ==
    IF k = 0
    THEN [current_storage |-> tank.initial_storage_liters, overflow |-> 0,
          shortage |-> 0, inflow_liters |-> 0]
    ELSE ReportingDay(ReportedAfter(k - 1).current_storage, forecast_df[k], usage_plan[k], tank)

\* both variants run on the same inputs and have completed the same number of days
SideBySide == spc # "off" /\ fpc # "off" /\ day = row

\* C18 as stated: the reporting storage is never above the scoring storage, and
\* the two are equal on every day up to and including the first day whose record
\* shows overflow with positive usage.
C18_EqualThroughFirstOverflowDay ==
    SideBySide =>
        /\ current_storage <= storage
        /\ (\A k \in 1..(row - 1) :
              ~(results[k].overflow_liters > 0 /\ usage_plan[k] > 0)) =>
           current_storage = storage

\* C18: side by side on the same plan, forecast and tank, the reporting storage at
\* the end of a day is never above the scoring storage, and the two are equal on
\* every day before the first day on which the reporting loop overflows, by any
\* amount, with a positive usage.
C18_EqualBeforeFirstOverflowDay ==
    SideBySide =>
        /\ current_storage = ReportedAfter(row).current_storage
        /\ current_storage <= storage
        /\ (\A k \in 1..row :
              ~(ReportedAfter(k).overflow > 0 /\ usage_plan[k] > 0)) =>
           current_storage = storage

\* C18 witness: the second day ends with less water in the reporting variant than
\* in the scoring variant, the first day having ended with the same
C18_Witness ==
    /\ SideBySide
    /\ row = 2
    /\ current_storage < storage
    /\ ReportedAfter(1).current_storage =
         ScoringDay([storage |-> tank.initial_storage_liters, overflow_penalty |-> 0,
                     shortage_penalty |-> 0], forecast_df[1], usage_plan[1], tank).storage
    /\ ReportedAfter(2).overflow > 0
    /\ usage_plan[2] > 0

\* the loop of fitness_function after k days
RECURSIVE ScoredAfter(_)
ScoredAfter(k) ==
    IF k = 0
    THEN [storage |-> tank.initial_storage_liters, overflow_penalty |-> 0,
          shortage_penalty |-> 0]
    ELSE ScoringDay(ScoredAfter(k - 1), forecast_df[k], usage_plan[k], tank)

\* both variants have returned for the same plan, forecast and tank
BothReturned == spc = "returned" /\ fpc = "returned"

\* C19 as stated: a trace whose records show no overflow and no shortage on any
\* day means a score of exactly 1000 and a scoring storage equal to the reported
\* storage_liters on every day.
C19_CleanRecordsMeanCleanScore ==
    (/\ BothReturned
     /\ \A k \in 1..Len(results) :
          results[k].overflow_liters = 0 /\ results[k].shortage_liters = 0) =>
        /\ score = BaseScore
        /\ \A k \in 1..Len(results) : ScoredAfter(k).storage = results[k].storage_liters

\* C19: if the loop of simulate_tank_levels has no overflow and no shortage on any
\* day, before rounding, then fitness_function returns exactly 1000 for the same
\* plan, forecast and tank, its storage at the end of every day is the storage of
\* the reporting loop, and the reported storage_liters is that storage rounded.
C19_CleanLoopMeansCleanScore ==
    (/\ BothReturned
     /\ \A k \in 1..Len(results) :
          ReportedAfter(k).overflow = 0 /\ ReportedAfter(k).shortage = 0) =>
        /\ score = BaseScore
        /\ overflow_penalty = 0
        /\ shortage_penalty = 0
        /\ storage = ScoredAfter(Len(results)).storage
        /\ current_storage = ReportedAfter(Len(results)).current_storage
        /\ \A k \in 1..Len(results) :
             /\ ScoredAfter(k).storage = ReportedAfter(k).current_storage
             /\ results[k].storage_liters = Round2(ScoredAfter(k).storage)

\* C19 witness: two days without overflow or shortage, with rain and with water
\* drawn, scored 1000
C19_Witness ==
    /\ BothReturned
    /\ Len(results) = 2
    /\ \A k \in 1..2 : ReportedAfter(k).overflow = 0 /\ ReportedAfter(k).shortage = 0
    /\ \E k \in 1..2 : ReportedAfter(k).inflow_liters > 0
    /\ \E k \in 1..2 : usage_plan[k] > 0
    /\ score = BaseScore
    /\ storage # tank.initial_storage_liters

====
